---- MODULE Spec2Model ----
(***************************************************************************)
(* Model of Trading_journal.py, a Streamlit script.  Every user            *)
(* interaction re-runs the whole script: the sidebar form handler (lines   *)
(* 20-72) followed by the dashboard (lines 75-233).  The only state that   *)
(* survives a run is st.session_state.trades and the widget values.        *)
(*                                                                         *)
(* Money is counted in units of 0.01 (the step of the number inputs), so   *)
(* amounts are integers; ratios are exact fractions [n, d].  The Image and *)
(* Notes columns are opaque to every computation and are left out.         *)
(***************************************************************************)
EXTENDS Integers, Sequences, FiniteSets, TLC

VARIABLES trades,       \* st.session_state.trades: sequence of rows
          filter,       \* values of the filter widgets (lines 92-116)
          event,        \* the interaction that triggered the last run
          status,       \* sidebar message of the last run: error / success / none
          df,           \* line 79-85: sorted copy with the cumulative columns
          filtered_df,  \* lines 94-124
          metrics,      \* lines 131-148, None when not computed
          cumulative,   \* line 145, the series the drawdown is taken from
          daily_df,     \* lines 167-170
          fig2,         \* lines 184-190, the cumulative P&L line
          notice        \* dashboard message: lines 76 and 233

vars == <<trades, filter, event, status, df, filtered_df, metrics,
          cumulative, daily_df, fig2, notice>>

----------------------------------------------------------------------------
(* Bounds *)

MaxSaved == 1           \* trades saved under Spec, where every form value is tried
MaxTrades == 2          \* trades saved under SpecMetrics and SpecFilter
MaxR == 1               \* largest R value entered, in units of 0.01
MaxCustom == 1          \* largest absolute custom P&L entered, in units of 0.01

(* Program constants *)

MinR == 1               \* number_input(min_value=0.01), line 27
PnlDefault == 0         \* number_input without value: 0.0, line 31

----------------------------------------------------------------------------
(* Optional values: Python None and a present value *)

None == <<>>
Some(x) == <<x>>

(* Trade type codes are strings; they are sliced and parsed on line 37-38 *)
W2R == <<"W", "2", "R">>
W1R == <<"W", "1", "R">>
L1R == <<"L", "1", "R">>
L2R == <<"L", "2", "R">>
Custom == <<"C", "u", "s", "t", "o", "m", " ", "$">>

TradeTypes == <<W2R, W1R, L1R, L2R, Custom>>

TypeSet == {TradeTypes[i] : i \in 1..Len(TradeTypes)}

(* s[1:-1] *)
Slice1m1(s) == SubSeq(s, 2, Len(s) - 1)

DigitVal(c) ==
    CASE c = "0" -> 0 [] c = "1" -> 1 [] c = "2" -> 2 [] c = "3" -> 3
      [] c = "4" -> 4 [] c = "5" -> 5 [] c = "6" -> 6 [] c = "7" -> 7
      [] c = "8" -> 8 [] c = "9" -> 9

RECURSIVE ParseFloat(_)
(* float() of a string of decimal digits *)
ParseFloat(s) ==
    IF Len(s) = 0 THEN 0
    ELSE 10 * ParseFloat(SubSeq(s, 1, Len(s) - 1)) + DigitVal(s[Len(s)])

StartsWithW(s) == Len(s) >= 1 /\ s[1] = "W"

(* st.number_input with no value argument: an untouched field yields 0.0 *)
PnlWidget(entered) == IF entered = None THEN PnlDefault ELSE entered[1]

(* CalcAmount without the sign of line 38: the L branch is not negated *)
CalcAmount_unsigned(trade_type, r_value, pnl_entered) ==
    IF trade_type = Custom
    THEN Some(PnlWidget(pnl_entered))
    ELSE IF r_value = None
         THEN None
         ELSE Some(ParseFloat(Slice1m1(trade_type)) * r_value[1])

(* Lines 30-39: the amount shown in the form, None when it cannot be computed *)
CalcAmount(trade_type, r_value, pnl_entered) ==
    IF trade_type = Custom
    THEN Some(PnlWidget(pnl_entered))
    ELSE IF r_value = None
         THEN None
         ELSE LET multiplier == ParseFloat(Slice1m1(trade_type))
              IN  Some(IF StartsWithW(trade_type)
                       THEN multiplier * r_value[1]
                       ELSE (0 - multiplier) * r_value[1])

(* Line 49: the condition under which the submission is refused *)
Refused(trade_type, r_value, amount) ==
    (trade_type # Custom /\ r_value = None) \/ amount = None

(* Lines 59-66 *)
NewTrade(trade_date, trade_type, r_value, amount) ==
    [Date |-> trade_date, Type |-> trade_type, R_Value |-> r_value,
     Amount |-> amount[1]]

(* Lines 68-71: pd.concat([trades, new_trade], ignore_index=True) *)
Concat(store, row) == Append(store, row)

----------------------------------------------------------------------------
(* Calendar *)

Date(y, m, d) == [year |-> y, month |-> m, day |-> d]

(* The dates that can be picked in the form and in the range picker.       *)
(* 2024-03-31 is a Sunday and 2024-04-01 a Monday: a week, a month and a   *)
(* quarter end between them.  2024-04-08 is in the same month as           *)
(* 2024-04-01 but in another week; 2024-05-06 is in the same quarter but   *)
(* in another month.                                                       *)
Dates == {Date(2024, 3, 31), Date(2024, 4, 1), Date(2024, 4, 8), Date(2024, 5, 6)}

Years == 2023..2025

IsLeap(y) == (y % 4 = 0) /\ ((y % 100 # 0) \/ (y % 400 = 0))

DaysInMonth(y, m) ==
    IF m = 2 THEN (IF IsLeap(y) THEN 29 ELSE 28)
    ELSE IF m \in {4, 6, 9, 11} THEN 30 ELSE 31

(* datetime's table of the days before each month of a common year *)
DaysBeforeMonthTable == <<0, 31, 59, 90, 120, 151, 181, 212, 243, 273, 304, 334>>

DaysBeforeMonth(y, m) ==
    DaysBeforeMonthTable[m] + (IF m > 2 /\ IsLeap(y) THEN 1 ELSE 0)

DaysBeforeYear(y) ==
    (y - 1) * 365 + ((y - 1) \div 4) - ((y - 1) \div 100) + ((y - 1) \div 400)

(* pd.to_datetime of a date: a point on the day axis (proleptic ordinal,   *)
(* day 1 = 0001-01-01, a Monday)                                           *)
ToDatetime(dt) == DaysBeforeYear(dt.year) + DaysBeforeMonth(dt.year, dt.month) + dt.day

YearOf(ts) == CHOOSE y \in Years : DaysBeforeYear(y) < ts /\ ts <= DaysBeforeYear(y + 1)

MonthOf(ts) ==
    LET y == YearOf(ts)
        n == ts - DaysBeforeYear(y)
    IN  CHOOSE m \in 1..12 :
            DaysBeforeMonth(y, m) < n /\ n <= DaysBeforeMonth(y, m) + DaysInMonth(y, m)

(* dt.to_period("W"): weeks run Monday to Sunday *)
PeriodW(ts) == (ts - 1) \div 7

(* dt.to_period("M") *)
PeriodM(ts) == YearOf(ts) * 12 + (MonthOf(ts) - 1)

(* dt.to_period("Q") *)
PeriodQ(ts) == YearOf(ts) * 4 + ((MonthOf(ts) - 1) \div 3)

ToPeriod(kind, ts) ==
    CASE kind = "Weekly" -> PeriodW(ts)
      [] kind = "Monthly" -> PeriodM(ts)
      [] kind = "Quarterly" -> PeriodQ(ts)

----------------------------------------------------------------------------
(* Exact fractions for the float ratios of lines 134-142 *)

RECURSIVE GCD(_, _)
GCD(a, b) == IF b = 0 THEN a ELSE GCD(b, a % b)

Abs(x) == IF x < 0 THEN 0 - x ELSE x

(* n / d with d > 0, in lowest terms *)
Rat(n, d) ==
    LET g == GCD(Abs(n), d)
    IN  [n |-> n \div g, d |-> d \div g]

Zero == [n |-> 0, d |-> 1]
One == [n |-> 1, d |-> 1]
Inf == [n |-> 1, d |-> 0]     \* np.inf, line 139

RatAdd(p, q) == Rat(p.n * q.d + q.n * p.d, p.d * q.d)
RatSub(p, q) == Rat(p.n * q.d - q.n * p.d, p.d * q.d)
RatMul(p, q) == Rat(p.n * q.n, p.d * q.d)
RatNeg(p) == [n |-> 0 - p.n, d |-> p.d]

----------------------------------------------------------------------------
(* Frames: sequences of rows.  A row keeps its index label, the position   *)
(* it was appended at, through sorting and filtering.                      *)

RECURSIVE SumAmount(_)
(* frame["Amount"].sum() *)
SumAmount(frame) ==
    IF frame = <<>> THEN 0
    ELSE SumAmount(SubSeq(frame, 1, Len(frame) - 1)) + frame[Len(frame)].Amount

(* frame["Amount"].cumsum() *)
CumSum(frame) == [i \in 1..Len(frame) |-> SumAmount(SubSeq(frame, 1, i))]

SetMax(S) == CHOOSE x \in S : \A y \in S : y <= x
SetMin(S) == CHOOSE x \in S : \A y \in S : x <= y

(* Lines 79-80: a copy of the store with Date converted by pd.to_datetime *)
CopyFrame(store) ==
    [i \in 1..Len(store) |->
        [idx |-> i - 1,
         Date |-> ToDatetime(store[i].Date),
         Type |-> store[i].Type,
         R_Value |-> store[i].R_Value,
         Amount |-> store[i].Amount]]

RECURSIVE Arrangements(_)
(* every ordering of a set of rows in which the dates ascend *)
Arrangements(rows) ==
    IF rows = {} THEN {<<>>}
    ELSE LET first == SetMin({r.Date : r \in rows})
         IN  UNION {{<<r>> \o t : t \in Arrangements(rows \ {r})} :
                        r \in {x \in rows : x.Date = first}}

(* Line 81: df.sort_values("Date").  The default kind is quicksort, which  *)
(* does not promise the order of rows with equal keys: every arrangement   *)
(* of the rows in ascending date order is a possible result.               *)
SortValues(frame) == Arrangements({frame[i] : i \in 1..Len(frame)})

(* Lines 84-85: the Cumulative_PnL and Daily_PnL columns of the whole frame *)
AddColumns(frame) ==
    LET cum == CumSum(frame)
    IN  [i \in 1..Len(frame) |->
            [idx |-> frame[i].idx,
             Date |-> frame[i].Date,
             Type |-> frame[i].Type,
             R_Value |-> frame[i].R_Value,
             Amount |-> frame[i].Amount,
             Cumulative_PnL |-> cum[i],
             Daily_PnL |-> SumAmount(SelectSeq(frame, LAMBDA r : r.Date = frame[i].Date))]]

----------------------------------------------------------------------------
(* Time filters, lines 92-124 *)

FilterKinds == {"Weekly", "Monthly", "Quarterly"}

FilterAll == [kind |-> "All", period |-> 0, date_range |-> <<>>]

RECURSIVE SortedDesc(_)
(* sorted(S, reverse=True) *)
SortedDesc(S) ==
    IF S = {} THEN <<>>
    ELSE LET m == SetMax(S) IN <<m>> \o SortedDesc(S \ {m})

(* Lines 100-101, 105-106, 110-111: the periods offered by the selectbox *)
PeriodOptions(kind, frame) ==
    SortedDesc({ToPeriod(kind, frame[i].Date) : i \in 1..Len(frame)})

(* The values the filter widgets can hold for a given frame; dates are the *)
(* days picked in the range input, of which one or two may be set         *)
FilterChoices(frame, dates) ==
    {FilterAll}
    \cup UNION {LET opts == PeriodOptions(k, frame)
                IN  {[kind |-> k, period |-> opts[i], date_range |-> <<>>] : i \in 1..Len(opts)} :
                k \in FilterKinds}
    \cup {[kind |-> "Custom Range", period |-> 0, date_range |-> <<s>>] : s \in dates}
    \cup UNION {{[kind |-> "Custom Range", period |-> 0, date_range |-> <<s, e>>] :
                    e \in {x \in dates : ToDatetime(s) <= ToDatetime(x)}} : s \in dates}

(* InRange with the end of the range left out *)
InRange_open(ts, date_range) ==
    ts >= ToDatetime(date_range[1]) /\ ts < ToDatetime(date_range[2])

(* Lines 118-120 *)
InRange(ts, date_range) ==
    ts >= ToDatetime(date_range[1]) /\ ts <= ToDatetime(date_range[2])

(* Lines 94-124 *)
ApplyFilter(frame, flt) ==
    IF flt.kind = "All" THEN frame
    ELSE IF flt.kind \in FilterKinds
         THEN SelectSeq(frame, LAMBDA r : ToPeriod(flt.kind, r.Date) = flt.period)
         ELSE IF Len(flt.date_range) = 2
              THEN SelectSeq(frame, LAMBDA r : InRange(r.Date, flt.date_range))
              ELSE frame

----------------------------------------------------------------------------
(* Metrics, lines 131-148 and 161 *)

Wins(frame) == SelectSeq(frame, LAMBDA r : r.Amount > 0)
Losses(frame) == SelectSeq(frame, LAMBDA r : r.Amount < 0)

(* Line 139 *)
ProfitFactor(total_wins, total_losses) ==
    IF total_losses > 0 THEN Rat(total_wins, total_losses) ELSE Inf

(* ExpandingMax as the maximum of the whole series, cumulative.max() *)
ExpandingMax_whole(series) ==
    [i \in 1..Len(series) |-> SetMax({series[j] : j \in 1..Len(series)})]

(* Line 146: cumulative.expanding(min_periods=1).max() *)
ExpandingMax(series) ==
    [i \in 1..Len(series) |-> SetMax({series[j] : j \in 1..i})]

(* Lines 145-148 *)
MaxDrawdown(cum) ==
    LET peak == ExpandingMax(cum)
        drawdown == [i \in 1..Len(cum) |-> cum[i] - peak[i]]
    IN  SetMin({drawdown[i] : i \in 1..Len(cum)})

(* Lines 131-148, 161; frame is not empty *)
CalcMetrics(frame) ==
    LET total_trades == Len(frame)
        winning_trades == Len(Wins(frame))
        losing_trades == Len(Losses(frame))
        win_rate == IF total_trades > 0 THEN Rat(winning_trades, total_trades) ELSE Zero
        total_wins == SumAmount(Wins(frame))
        total_losses == Abs(SumAmount(Losses(frame)))
        avg_win == IF winning_trades > 0 THEN Rat(total_wins, winning_trades) ELSE Zero
        avg_loss == IF losing_trades > 0 THEN Rat(total_losses, losing_trades) ELSE Zero
    IN  [total_trades |-> total_trades,
         winning_trades |-> winning_trades,
         losing_trades |-> losing_trades,
         win_rate |-> win_rate,
         total_wins |-> total_wins,
         total_losses |-> total_losses,
         profit_factor |-> ProfitFactor(total_wins, total_losses),
         avg_win |-> avg_win,
         avg_loss |-> avg_loss,
         expectancy |-> RatAdd(RatMul(avg_win, win_rate),
                               RatMul(RatNeg(avg_loss), RatSub(One, win_rate))),
         max_drawdown |-> MaxDrawdown(CumSum(frame)),
         net_pnl |-> SumAmount(frame)]

----------------------------------------------------------------------------
(* Chart series, lines 167-190 *)

(* Lines 167-170: groupby("Date").agg(min, max, first, last); the groups   *)
(* come in ascending date order, the rows of a group in frame order        *)
DailyDf(frame) ==
    LET days == {frame[i].Date : i \in 1..Len(frame)}
        asc == SortedDesc({0 - d : d \in days})
    IN  [k \in 1..Len(asc) |->
            LET d == 0 - asc[k]
                g == SelectSeq(frame, LAMBDA r : r.Date = d)
                amounts == {g[i].Amount : i \in 1..Len(g)}
            IN  [Date |-> d,
                 Low |-> SetMin(amounts),
                 High |-> SetMax(amounts),
                 Open |-> g[1].Amount,
                 Close |-> g[Len(g)].Amount]]

(* Lines 185-190: the line drawn from the Cumulative_PnL column *)
CumulativeChart(frame) ==
    [i \in 1..Len(frame) |-> [x |-> frame[i].Date, y |-> frame[i].Cumulative_PnL]]

----------------------------------------------------------------------------
(* The script *)

(* RInputs with min_value=0.0: a zero R can be entered *)
RInputs_min0 == {None} \cup {Some(r) : r \in 0..MaxR}

(* Line 27: what the R field can hold, None while it is empty *)
RInputs == {None} \cup {Some(r) : r \in MinR..MaxR}

(* Line 31: what the user typed in the P&L field, None while untouched *)
PnlInputs == {None} \cup {Some(a) : a \in (0 - MaxCustom)..MaxCustom}

(* Lines 26-31: the values of the form; the P&L field exists for Custom only *)
Forms ==
    {f \in [trade_type : TypeSet, r_value : RInputs, pnl : PnlInputs] :
        f.trade_type # Custom => f.pnl = None}

(* Lines 48-72: the submit handler; the store and the message it leaves *)
SubmitHandler(store, trade_date, trade_type, r_value, pnl_entered) ==
    LET amount == CalcAmount(trade_type, r_value, pnl_entered)
    IN  IF Refused(trade_type, r_value, amount)
        THEN [trades |-> store, status |-> "error"]
        ELSE [trades |-> Concat(store, NewTrade(trade_date, trade_type, r_value, amount)),
              status |-> "success"]

(* StoreAfterRun without the copy of line 79: the session's frame itself  *)
(* is put in date order                                                   *)
StoreAfterRun_sorted(store) ==
    CHOOSE t \in [1..Len(store) -> {store[i] : i \in 1..Len(store)}] :
        /\ \A r \in {store[i] : i \in 1..Len(store)} :
              Cardinality({i \in 1..Len(store) : t[i] = r})
                = Cardinality({i \in 1..Len(store) : store[i] = r})
        /\ \A i, j \in 1..Len(store) :
              i < j => ToDatetime(t[i].Date) <= ToDatetime(t[j].Date)

(* Line 79: the dashboard works on a copy, the session's frame is not touched *)
StoreAfterRun(store) == store

(* MetricsOf without the guard of line 129: an empty selection is summed *)
(* up to a report of zeros                                               *)
MetricsOf_zero(frame) ==
    IF frame # <<>> THEN Some(CalcMetrics(frame))
    ELSE Some([total_trades |-> 0, winning_trades |-> 0, losing_trades |-> 0,
               win_rate |-> Zero, total_wins |-> 0, total_losses |-> 0,
               profit_factor |-> Zero, avg_win |-> Zero, avg_loss |-> Zero,
               expectancy |-> Zero, max_drawdown |-> 0, net_pnl |-> 0])

(* Lines 129 and 232-233: metrics are computed for a non-empty selection only *)
MetricsOf(frame) == IF frame # <<>> THEN Some(CalcMetrics(frame)) ELSE None

(* Lines 75-233: one rendering of the dashboard *)
Dashboard(store, flt) ==
    IF store = <<>>
    THEN /\ df' = <<>>
         /\ filtered_df' = <<>>
         /\ metrics' = None
         /\ cumulative' = <<>>
         /\ daily_df' = <<>>
         /\ fig2' = <<>>
         /\ notice' = "No trades recorded yet"
    ELSE \E sorted \in SortValues(CopyFrame(store)) :
            LET d == AddColumns(sorted)
                f == ApplyFilter(d, flt)
            IN  /\ df' = d
                /\ filtered_df' = f
                /\ metrics' = MetricsOf(f)
                /\ cumulative' = CumSum(f)
                /\ daily_df' = DailyDf(f)
                /\ fig2' = CumulativeChart(f)
                /\ notice' = IF f # <<>> THEN "" ELSE "No trades found in selected time period"

NoForm == [op |-> "start", trade_type |-> <<>>, r_value |-> None, pnl |-> None]

Init ==
    /\ trades = <<>>
    /\ filter = FilterAll
    /\ event = NoForm
    /\ status = "none"
    /\ df = <<>>
    /\ filtered_df = <<>>
    /\ metrics = None
    /\ cumulative = <<>>
    /\ daily_df = <<>>
    /\ fig2 = <<>>
    /\ notice = "No trades recorded yet"

(* "Save Trade" pressed: lines 23-72, then the dashboard *)
SubmitTrade(forms, dates, cap) ==
    \E f \in forms, trade_date \in dates :
        /\ LET res == SubmitHandler(trades, trade_date, f.trade_type, f.r_value, f.pnl)
           IN  /\ Len(res.trades) <= cap
               /\ trades' = StoreAfterRun(res.trades)
               /\ status' = res.status
               /\ Dashboard(res.trades, filter)
        /\ event' = [op |-> "submit", trade_type |-> f.trade_type,
                     r_value |-> f.r_value, pnl |-> f.pnl]
        /\ filter' = filter

(* A filter widget changed: lines 92-116, the form is not submitted *)
ChangeFilter(dates) ==
    /\ trades # <<>>
    /\ \E flt \in FilterChoices(df, dates) \ {filter} :
        /\ filter' = flt
        /\ Dashboard(trades, flt)
    /\ trades' = StoreAfterRun(trades)
    /\ status' = "none"
    /\ event' = [NoForm EXCEPT !.op = "filter"]

(* "Export All Trades (CSV)" pressed: lines 219-225, shown with the metrics *)
ExportCsv ==
    /\ filtered_df # <<>>
    /\ Dashboard(trades, filter)
    /\ trades' = StoreAfterRun(trades)
    /\ status' = "none"
    /\ event' = [NoForm EXCEPT !.op = "export"]
    /\ filter' = filter

(* "Clear All Trades" pressed: lines 227-231, shown with the metrics *)
ClearAll ==
    /\ filtered_df # <<>>
    /\ trades' = <<>>
    /\ Dashboard(<<>>, FilterAll)
    /\ filter' = FilterAll
    /\ status' = "none"
    /\ event' = [NoForm EXCEPT !.op = "clear"]

----------------------------------------------------------------------------
(* Specifications.  The three differ in the inputs the user draws from.    *)

(* Every form value, one trade date: the form and the store *)
FormDates == {Date(2024, 4, 1)}

Next ==
    \/ SubmitTrade(Forms, FormDates, MaxSaved)
    \/ ChangeFilter(FormDates)
    \/ ExportCsv
    \/ ClearAll

Spec == Init /\ [][Next]_vars

(* A winning, a losing and a zero trade (amounts 2, -1 and 0) on two       *)
(* adjacent days: the metrics and the chart series                         *)
MetricDates == {Date(2024, 3, 31), Date(2024, 4, 1)}

MetricForms ==
    {f \in Forms :
        \/ f.trade_type \in {W2R, L1R} /\ f.r_value = Some(MinR)
        \/ f.trade_type = Custom /\ f.r_value = None /\ f.pnl = None}

NextMetrics ==
    \/ SubmitTrade(MetricForms, MetricDates, MaxTrades)
    \/ ChangeFilter(MetricDates)
    \/ ExportCsv
    \/ ClearAll

SpecMetrics == Init /\ [][NextMetrics]_vars

(* One kind of trade on every date: the time filters *)
FilterForms == {f \in Forms : f.trade_type = W1R /\ f.r_value = Some(MinR)}

NextFilter ==
    \/ SubmitTrade(FilterForms, Dates, MaxTrades)
    \/ ChangeFilter(Dates)
    \/ ExportCsv
    \/ ClearAll

SpecFilter == Init /\ [][NextFilter]_vars

----------------------------------------------------------------------------
(* Properties *)

StoreRows == {trades[i] : i \in 1..Len(trades)}

RTypes == {W2R, W1R, L1R, L2R}

(* A submitted form fails validation: a missing or non-positive R for an   *)
(* R type, no custom amount for Custom                                     *)
FailsValidation(f) ==
    \/ f.trade_type # Custom /\ (f.r_value = None \/ f.r_value[1] <= 0)
    \/ f.trade_type = Custom /\ f.pnl = None

(* C1: a submission that fails validation is refused with an error and     *)
(* leaves the store as it was; every other submission appends exactly one  *)
(* record at the end of the store.                                         *)
C1_RejectedOrAppended ==
    [][event'.op = "submit" =>
          IF FailsValidation(event')
          THEN status' = "error" /\ trades' = trades
          ELSE /\ status' = "success"
               /\ Len(trades') = Len(trades) + 1
               /\ SubSeq(trades', 1, Len(trades)) = trades
               /\ trades'[Len(trades')].Type = event'.trade_type]_vars

(* C2 as stated: in every stored record r_value is present and positive    *)
(* exactly when the type is not Custom, and amount is present.             *)
C2_RValueIffNotCustom ==
    \A r \in StoreRows :
        /\ (r.R_Value # None /\ r.R_Value[1] > 0) <=> (r.Type # Custom)
        /\ r.Amount \in Int

(* C2 amended: every stored record of an R type carries a present, positive *)
(* r_value; a Custom record carries whatever the R field held, nothing or a *)
(* positive value; amount is always present.                                *)
C2_RValueOfRTypes ==
    \A r \in StoreRows :
        /\ r.Type # Custom => r.R_Value # None /\ r.R_Value[1] > 0
        /\ r.Type = Custom => r.R_Value = None \/ r.R_Value[1] > 0
        /\ r.Amount \in Int

(* a Custom record that carries an r_value is in the store *)
C2_Witness ==
    \E r \in StoreRows : r.Type = Custom /\ r.R_Value # None

(* the multiplier and the sign a type code stands for *)
MultiplierOf(t) == IF t \in {W2R, L2R} THEN 2 ELSE 1
SignOf(t) == IF t \in {W2R, W1R} THEN 1 ELSE 0 - 1

(* C3: a stored trade of type W2R, W1R, L1R or L2R has amount = sign * m *  *)
(* r_value, positive for W and negative for L; W2R with 50 gives 100 and    *)
(* L1R with 75 gives -75.                                                   *)
C3_AmountOfRTypes ==
    /\ \A r \in StoreRows :
          r.Type \in RTypes =>
              /\ r.Amount = SignOf(r.Type) * MultiplierOf(r.Type) * r.R_Value[1]
              /\ r.Type \in {W2R, W1R} => r.Amount > 0
              /\ r.Type \in {L1R, L2R} => r.Amount < 0
    /\ CalcAmount(W2R, Some(50), None) = Some(100)
    /\ CalcAmount(L1R, Some(75), None) = Some(0 - 75)

(* a losing trade of two R is in the store *)
C3_Witness ==
    \E r \in StoreRows : r.Type = L2R /\ r.R_Value # None /\ r.Amount < 0

----------------------------------------------------------------------------
(* Properties of the dashboard *)

RECURSIVE SumSeq(_)
SumSeq(q) == IF q = <<>> THEN 0 ELSE q[1] + SumSeq(Tail(q))

(* the amounts of the selected trades, in the order of the selection *)
Amounts == [i \in 1..Len(filtered_df) |-> filtered_df[i].Amount]

(* the running total of the selected amounts *)
Running == [i \in 1..Len(Amounts) |-> SumSeq(SubSeq(Amounts, 1, i))]

GainSum == SumSeq(SelectSeq(Amounts, LAMBDA a : a > 0))
LossSum == 0 - SumSeq(SelectSeq(Amounts, LAMBDA a : a < 0))

(* C4: profit_factor is the infinity sentinel exactly when total_losses = 0 *)
(* and total_wins > 0, it is 0 when both are 0, and total_wins /            *)
(* total_losses otherwise.                                                  *)
C4_ProfitFactor ==
    metrics # None =>
        /\ (metrics[1].profit_factor = Inf) <=> (LossSum = 0 /\ GainSum > 0)
        /\ (LossSum = 0 /\ GainSum = 0) => metrics[1].profit_factor = Zero
        /\ LossSum > 0 =>
              /\ metrics[1].profit_factor.d > 0
              /\ metrics[1].profit_factor.n * LossSum = GainSum * metrics[1].profit_factor.d

(* every field of the report is 0 *)
AllZero(m) ==
    /\ m.total_trades = 0 /\ m.winning_trades = 0 /\ m.losing_trades = 0
    /\ m.win_rate = Zero /\ m.profit_factor = Zero
    /\ m.avg_win = Zero /\ m.avg_loss = Zero /\ m.expectancy = Zero
    /\ m.max_drawdown = 0 /\ m.net_pnl = 0

NonDecreasing(q) == \A i \in 1..(Len(q) - 1) : q[i] <= q[i + 1]

(* C6: for a non-empty selection max_drawdown, the minimum of running total *)
(* minus running peak over the date-ordered series, is at most 0, and is 0  *)
(* when the running total never decreases; amounts 200, -100, 300 give -100.*)
C6_MaxDrawdown ==
    /\ metrics # None =>
          /\ metrics[1].max_drawdown <= 0
          /\ NonDecreasing(Running) => metrics[1].max_drawdown = 0
          /\ \E i \in 1..Len(Running) : \E j \in 1..i :
                /\ Running[j] = SetMax({Running[k] : k \in 1..i})
                /\ metrics[1].max_drawdown = Running[i] - Running[j]
          /\ \A i \in 1..Len(Running) : \A j \in 1..i :
                metrics[1].max_drawdown <= Running[i] - Running[j]
    /\ MaxDrawdown(<<200, 100, 400>>) = 0 - 100

(* a selection whose running total falls below an earlier peak *)
C6_Witness ==
    metrics # None /\ Len(filtered_df) >= 2 /\ metrics[1].max_drawdown < 0

----------------------------------------------------------------------------
(* Properties of the filter and of the series *)

(* the calendar date a row of a frame was stored with *)
StoredDate(r) == trades[r.idx + 1].Date

DateLeq(a, b) ==
    \/ a.year < b.year
    \/ a.year = b.year /\ a.month < b.month
    \/ a.year = b.year /\ a.month = b.month /\ a.day <= b.day

(* two dates of the same week (Monday to Sunday), month, quarter *)
SamePeriod(kind, a, b) ==
    CASE kind = "Weekly" -> (ToDatetime(a) - 1) \div 7 = (ToDatetime(b) - 1) \div 7
      [] kind = "Monthly" -> a.year = b.year /\ a.month = b.month
      [] kind = "Quarterly" ->
            a.year = b.year /\ (a.month - 1) \div 3 = (b.month - 1) \div 3

(* the row lies in the window the filter widgets select *)
InWindow(r) ==
    CASE filter.kind = "All" -> TRUE
      [] filter.kind \in FilterKinds ->
            \E q \in 1..Len(df) :
                /\ ToPeriod(filter.kind, df[q].Date) = filter.period
                /\ SamePeriod(filter.kind, StoredDate(r), StoredDate(df[q]))
      [] filter.kind = "Custom Range" ->
            /\ DateLeq(filter.date_range[1], StoredDate(r))
            /\ DateLeq(StoredDate(r), filter.date_range[2])

(* C7: the filter returns exactly the trades of the date-sorted collection  *)
(* whose date lies in the selected window, in unchanged relative order: the *)
(* chosen week, month or quarter, or start <= date <= end for a range.      *)
C7_FilterSelectsWindow ==
    (trades # <<>> /\ (filter.kind = "Custom Range" => Len(filter.date_range) = 2)) =>
        /\ filtered_df = SelectSeq(df, InWindow)
        /\ \A i \in 1..(Len(df) - 1) : df[i].Date <= df[i + 1].Date

(* a range whose last day holds a selected trade, while a trade of the day  *)
(* before the first day of the range is left out                            *)
C7_Witness ==
    /\ filter.kind = "Custom Range" /\ Len(filter.date_range) = 2
    /\ \E i \in 1..Len(filtered_df) : StoredDate(filtered_df[i]) = filter.date_range[2]
    /\ \E i \in 1..Len(df) :
          /\ df[i].Date + 1 = ToDatetime(filter.date_range[1])
          /\ \A j \in 1..Len(filtered_df) : filtered_df[j].idx # df[i].idx

(* C8: the store changes only by an accepted add-trade, which appends one   *)
(* record at the end, or by a full clear; a filter change, the metrics, the *)
(* chart series and the export leave it as it was.                          *)
C8_StoreAppendOrClear ==
    [][/\ \/ trades' = trades
          \/ event'.op = "clear" /\ trades' = <<>>
          \/ /\ event'.op = "submit" /\ status' = "success"
             /\ Len(trades') = Len(trades) + 1
             /\ SubSeq(trades', 1, Len(trades)) = trades
       /\ event'.op \in {"filter", "export"} => trades' = trades
       /\ (event'.op = "submit" /\ status' = "error") => trades' = trades]_vars

(* a filter change has run on a store whose insertion order is not its date *)
(* order                                                                    *)
C8_Witness ==
    /\ event.op = "filter"
    /\ Len(trades) = 2
    /\ ToDatetime(trades[1].Date) > ToDatetime(trades[2].Date)

(* C9: the cumulative P&L line of a filtered view is the running sum of the *)
(* filtered trades only: it starts at the amount of the first filtered      *)
(* trade, ends at net_pnl, and equals the series the drawdown is taken from.*)
C9_CumulativeOfSelection ==
    metrics # None =>
        /\ Len(fig2) = Len(filtered_df)
        /\ \A i \in 1..Len(fig2) : fig2[i].y = Running[i]
        /\ fig2[1].y = filtered_df[1].Amount
        /\ fig2[Len(fig2)].y = metrics[1].net_pnl
        /\ \A i \in 1..Len(fig2) : fig2[i].y = cumulative[i]

(* C10: the daily series has one entry per date of the selection; open is   *)
(* the amount of the trade of that date stored first, close of the one      *)
(* stored last, high and low the largest and smallest amount of the date.   *)
C10_DailyOpenClose ==
    metrics # None =>
        LET days == {filtered_df[i].Date : i \in 1..Len(filtered_df)}
        IN  /\ Len(daily_df) = Cardinality(days)
            /\ {daily_df[k].Date : k \in 1..Len(daily_df)} = days
            /\ \A k \in 1..Len(daily_df) :
                  LET ids == {filtered_df[i].idx :
                                i \in {j \in 1..Len(filtered_df) :
                                         filtered_df[j].Date = daily_df[k].Date}}
                      amts == {trades[i + 1].Amount : i \in ids}
                  IN  /\ daily_df[k].Open = trades[SetMin(ids) + 1].Amount
                      /\ daily_df[k].Close = trades[SetMax(ids) + 1].Amount
                      /\ daily_df[k].High = SetMax(amts)
                      /\ daily_df[k].Low = SetMin(amts)
                      /\ daily_df[k].Low <= daily_df[k].Open
                      /\ daily_df[k].Open <= daily_df[k].High
                      /\ daily_df[k].Low <= daily_df[k].Close
                      /\ daily_df[k].Close <= daily_df[k].High

====
